---- MODULE Spec2Model ----
(***************************************************************************)
(* Model of the two CNTK "1stSteps" example scripts:                       *)
(*   Examples/1stSteps/LogisticRegression_GraphAPI.py   (script "LR")      *)
(*   Examples/1stSteps/MNIST_Complex_Training.py        (script "MNIST")   *)
(* Arrays are sequences; Python's 0-based sample index k is position k+1.  *)
(* Real-valued quantities (features, parameters) are abstracted to small   *)
(* integers; sizes, indices, counters and control flow are exact.          *)
(***************************************************************************)
EXTENDS Integers, Sequences, FiniteSets, TLC

(* ------------------------------ bounds -------------------------------- *)
MaxSplit == 3
MaxMTest == 2
MaxMBatch == 2
MaxEpochs == 2
MaxStep == 2
MaxVariant == 2
MaxTrain == 4
MaxTest == 3
MaxCheck == 2
MaxBatch == 3
MaxEntropy == 1
MaxInitW == 1

(* ------------------------- program constants -------------------------- *)
input_dim == 2
num_classes == 2
seed_value == 0
train_size == 20000
test_size == 1000
check_size == 25
minibatch_size == 25
progress_every == 1250
mnist_num_classes == 10
mnist_split == 60000
epoch_size == 60000
mnist_minibatch_size == 64
max_epochs == 2
mnist_progress_freq == 50
check_stop == 10000
check_step == 400
model_path == "Models/mnist.cmf"

Min(a, b) == IF a < b THEN a ELSE b

CeilDiv(a, b) == (a + b - 1) \div b

RECURSIVE SeqSum(_)
SeqSum(s) == IF s = <<>> THEN 0 ELSE s[1] + SeqSum(Tail(s))

(* ---------------- numpy's global generator (np.random) ---------------- *)
(* A counter-based generator: the state is the number of the next draw,   *)
(* a draw is a fixed mixing function of that number.                      *)
RngMod == 65537

Mix(c) == ((c % RngMod) * 75 + 74) % RngMod

np_random_seed(st, s) == s % RngMod

rng_advance(st, n) == (st + n) % RngMod

\* np.random.randint(size=n, low, high): n integers in low..high-1
randint(st, n, low, high) ==
    [k \in 1..n |-> low + ((Mix(st + k - 1) \div 7) % (high - low))]

\* np.random.randn(n, d): an n x d matrix of (quantised) normal deviates
randn(st, n, d) ==
    [k \in 1..n |-> [j \in 1..d |-> (Mix(st + (k - 1) * d + (j - 1)) % 5) - 2]]

(* --------------------------- array helpers ---------------------------- *)
\* X.astype(np.float32): exact up to 2^24, then rounded to the float grid
astype_float32(v) ==
    IF v <= 16777216 /\ v >= -16777216 THEN v ELSE (v \div 2) * 2

\* scipy.sparse.csr_matrix((data, (range(n), cols)), shape=(n, nc)), dense view:
\* row r holds data[r] in column cols[r]; the constructor raises (ok is FALSE)
\* when a column index is outside 0..nc-1
csr_matrix(data, cols, n, nc) ==
    [ok   |-> \A r \in 1..n : cols[r] >= 0 /\ cols[r] < nc,
     rows |-> [r \in 1..n |-> [c \in 0..(nc - 1) |-> IF cols[r] = c THEN data[r] ELSE 0]]]

\* a[i:j] on the first axis: clamps j to len(a), empty when i >= len(a)
Slice(a, i, j) == SubSeq(a, i + 1, Min(j, Len(a)))

\* row.argmax(): the first index of the largest entry
argmax(row) ==
    CHOOSE c \in DOMAIN row :
        /\ \A d \in DOMAIN row : row[d] <= row[c]
        /\ \A d \in DOMAIN row : d < c => row[d] < row[c]

(* ------------------- LogisticRegression_GraphAPI.py ------------------- *)
\* seeded fault: the 1 is stored in the column of the other class
one_hot_flipped(Y0, N) ==
    csr_matrix([k \in 1..N |-> 1], [k \in 1..N |-> (num_classes - 1) - Y0[k]],
               N, num_classes)

\* line 28: the labels as a sparse one-hot matrix
one_hot(Y0, N) == csr_matrix([k \in 1..N |-> 1], Y0, N, num_classes)

\* lines 24-30
generate_synthetic_data(st, N) ==
    LET Y0  == randint(st, N, 0, num_classes)
        st1 == rng_advance(st, N)
        Z   == randn(st1, N, input_dim)
        st2 == rng_advance(st1, N * input_dim)
        X0  == [k \in 1..N |-> [j \in 1..input_dim |-> (Z[k][j] + 3) * (Y0[k] + 1)]]
        Y   == one_hot(Y0, N)
        X   == [k \in 1..N |-> [j \in 1..input_dim |-> astype_float32(X0[k][j])]]
    IN  [ok |-> Y.ok, X |-> X, Y |-> Y.rows, rng |-> st2, classes |-> Y0]

(* ----------- the framework (cntk), as the scripts rely on it ---------- *)
(* Parameters W and b are abstracted to residues modulo ParamMod.        *)
ParamMod == 5

\* model = cntk.times(data, W) + b : one score per class
model_scores(p, xrow, nc) ==
    [c \in 0..(nc - 1) |-> (p.W * (c + 1) * SeqSum(xrow) + p.b * c) % ParamMod]

\* cntk.classification_error over a minibatch: the number of wrong rows
classification_errors(p, x, y, nc) ==
    Cardinality({k \in 1..Len(x) : argmax(model_scores(p, x[k], nc)) # argmax(y[k])})

\* the gradient of the loss over a minibatch
gradient(p, x, y) ==
    (SeqSum([k \in 1..Len(x) |-> SeqSum(x[k]) * (argmax(y[k]) + 1)]) + Len(x)) % ParamMod

\* the learner's update: parameters change in place, the counters advance
learner_update(f, g, n) ==
    [W |-> (f.W + g) % ParamMod, b |-> (f.b + 1) % ParamMod,
     samples |-> f.samples + n, steps |-> f.steps + 1]

\* trainer.train_minibatch as one call: forward, backward, update
train_minibatch(f, e, x, y) ==
    [fw |-> learner_update(f, gradient(f, x, y), Len(x)), ev |-> e]

\* evaluator.test_minibatch: forward only, accumulates the metric
test_minibatch(f, e, x, y, nc) ==
    [fw |-> f,
     ev |-> [samples |-> e.samples + Len(x),
             errors  |-> e.errors + classification_errors(f, x, y, nc),
             steps   |-> e.steps + 1]]

\* ProgressPrinter(freq): a line every freq minibatches
progress_line(freq, steps) ==
    IF freq > 0 /\ steps % freq = 0 THEN << <<"progress", steps>> >> ELSE <<>>

(* ------------------------------ state --------------------------------- *)
VARIABLES
    script,      \* which of the two example scripts runs
    cfg,         \* LR: the sizes the script uses
    pc,          \* LR: position in the script
    np_random,   \* LR: state of numpy's global generator
    X_train, Y_train, X_test, Y_test, X_check, Y_check,
    fw,          \* LR: W, b and the learner's counters
    ev,          \* LR: the evaluator's accumulators
    phase,       \* LR: phase of the training state machine
    iter,        \* LR: next value of the range() iterator
    i, x, y,     \* LR: loop variables
    grad,        \* LR: gradient computed by the backward phase
    result,      \* LR: get_probability.eval(X_check), as class indices
    stdout,      \* LR: what has been printed
    presented,   \* LR history: the slices given to train_minibatch
    tested,      \* LR history: the slices given to test_minibatch
    fw_trained,  \* LR history: fw when the training loop ended
    classes      \* LR history: the class drawn for each sample, per array

lrvars == <<cfg, pc, np_random, X_train, Y_train, X_test, Y_test, X_check, Y_check,
            fw, ev, phase, iter, i, x, y, grad, result, stdout, presented, tested,
            fw_trained, classes>>

VARIABLES
    m_cfg,         \* MNIST: the sizes the script uses and the dataset served
    m_pc,          \* MNIST: position in the script
    m_rng,         \* MNIST: state of numpy's global generator
    m_X_train, m_Y_train, m_X_test, m_Y_test,
    m_fw,          \* MNIST: parameters and the learner's counters
    m_cursor,      \* MNIST: position of the training session in the sweep
    m_ckpt_index,  \* MNIST: index of the last checkpoint taken
    m_files,       \* MNIST: the writes made to the file system
    m_progress,    \* MNIST: epoch summaries and test summary
    m_final,       \* MNIST: the tuple read from progress at line 88
    m_check,       \* MNIST: X_check, Y_check and result
    m_stdout,      \* MNIST: what has been printed
    m_fetches,     \* MNIST history: calls of fetch_mldata
    m_failed       \* MNIST history: fetch_mnist raised

mvars == <<m_cfg, m_pc, m_rng, m_X_train, m_Y_train, m_X_test, m_Y_test, m_fw,
           m_cursor, m_ckpt_index, m_files, m_progress, m_final, m_check, m_stdout,
           m_fetches, m_failed>>

VARIABLES
    b_pc,          \* second run of the LR script: position
    b_rng,         \* second run: state of numpy's global generator
    b_out          \* second run: the arrays returned, call by call

bvars == <<b_pc, b_rng, b_out>>

vars == <<script, lrvars, mvars, bvars>>

SmallCfgs ==
    [n_train : 0..MaxTrain, n_test : 0..MaxTest, n_check : 0..MaxCheck, mbs : 1..MaxBatch]

ScriptCfg ==
    [n_train |-> train_size, n_test |-> test_size, n_check |-> check_size,
     mbs |-> minibatch_size]

LRInit(cfgs, pc0, entropy) ==
    /\ cfg \in cfgs
    /\ pc = pc0
    /\ np_random \in entropy
    /\ X_train = <<>> /\ Y_train = <<>>
    /\ X_test = <<>> /\ Y_test = <<>>
    /\ X_check = <<>> /\ Y_check = <<>>
    /\ fw = [W |-> 0, b |-> 0, samples |-> 0, steps |-> 0]
    /\ ev = [samples |-> 0, errors |-> 0, steps |-> 0]
    /\ phase = "Idle"
    /\ iter = 0 /\ i = 0 /\ x = <<>> /\ y = <<>>
    /\ grad = 0
    /\ result = <<>>
    /\ stdout = <<>>
    /\ presented = <<>> /\ tested = <<>>
    /\ fw_trained = fw
    /\ classes = [train |-> <<>>, test |-> <<>>, check |-> <<>>]

(* ------------------------- LR script, line by line -------------------- *)
\* seeded fault: the generator is never seeded
SeedCall_missing(st) == st

\* line 23: np.random.seed(0)
SeedCall(st) == np_random_seed(st, seed_value)

\* line 23
SeedRng ==
    /\ script = "LR" /\ pc = "seed"
    /\ np_random' = SeedCall(np_random)
    /\ pc' = "gen_train"
    /\ UNCHANGED <<script, mvars, bvars, cfg, X_train, Y_train, X_test, Y_test, X_check, Y_check,
                   fw, ev, phase, iter, i, x, y, grad, result, stdout, presented,
                   tested, fw_trained, classes>>

\* line 31
GenTrain ==
    /\ script = "LR" /\ pc = "gen_train"
    /\ LET r == generate_synthetic_data(np_random, cfg.n_train)
       IN  /\ X_train' = r.X /\ Y_train' = r.Y /\ np_random' = r.rng
           /\ classes' = [classes EXCEPT !.train = r.classes]
           /\ pc' = IF r.ok THEN "gen_test" ELSE "error"
    /\ UNCHANGED <<script, mvars, bvars, cfg, X_test, Y_test, X_check, Y_check,
                   fw, ev, phase, iter, i, x, y, grad, result, stdout, presented,
                   tested, fw_trained>>

\* line 32
GenTest ==
    /\ script = "LR" /\ pc = "gen_test"
    /\ LET r == generate_synthetic_data(np_random, cfg.n_test)
       IN  /\ X_test' = r.X /\ Y_test' = r.Y /\ np_random' = r.rng
           /\ classes' = [classes EXCEPT !.test = r.classes]
           /\ pc' = IF r.ok THEN "build" ELSE "error"
    /\ UNCHANGED <<script, mvars, bvars, cfg, X_train, Y_train, X_check, Y_check,
                   fw, ev, phase, iter, i, x, y, grad, result, stdout, presented,
                   tested, fw_trained>>

\* lines 41-62: W = glorot_uniform(), b = 0, learner and trainer start at zero
Build ==
    /\ script = "LR" /\ pc = "build"
    /\ \E w0 \in 0..MaxInitW :
          fw' = [W |-> w0, b |-> 0, samples |-> 0, steps |-> 0]
    /\ iter' = 0
    /\ pc' = "train"
    /\ UNCHANGED <<script, mvars, bvars, cfg, np_random, X_train, Y_train, X_test, Y_test, X_check,
                   Y_check, ev, phase, i, x, y, grad, result, stdout, presented,
                   tested, fw_trained, classes>>

\* seeded fault: the loop visits full minibatches only
RangeStop_full_batches(n, m) == n - m + 1

\* lines 65 and 73: range(0, len(X), minibatch_size) stops before n
RangeStop(n, m) == n

\* seeded fault: the step of range() is left at its default
RangeNext_unit(it, m) == it + 1

\* lines 65 and 73: range(0, len(X), minibatch_size) steps by minibatch_size
RangeNext(it, m) == it + m

\* seeded fault: the slice ends one row early
SliceEnd_short(lo, m) == lo + m - 1

\* the end index of the slices taken at lines 66-67 and 74-75
SliceEnd(lo, m) == lo + m

\* lines 66 and 74: x = X[i:i+minibatch_size]
BatchX(X, lo, m) == Slice(X, lo, SliceEnd(lo, m))

\* seeded fault: the labels are sliced one row further on
BatchY_shifted(Y, lo, m) == Slice(Y, lo + 1, SliceEnd(lo, m) + 1)

\* lines 67 and 75: y = Y[i:i+minibatch_size]
BatchY(Y, lo, m) == Slice(Y, lo, SliceEnd(lo, m))

\* seeded fault: the next minibatch is started while the last one's update is pending
TrainForward_overlap ==
    /\ script = "LR" /\ pc = "train" /\ phase \in {"Idle", "Backward", "ParameterUpdate"}
    /\ iter < RangeStop(Len(X_train), cfg.mbs)
    /\ i' = iter
    /\ iter' = RangeNext(iter, cfg.mbs)
    /\ x' = BatchX(X_train, iter, cfg.mbs)
    /\ y' = BatchY(Y_train, iter, cfg.mbs)
    /\ phase' = "Forward"
    /\ presented' = Append(presented, [lo |-> iter, n |-> Len(x'), ny |-> Len(y')])
    /\ UNCHANGED <<script, mvars, bvars, cfg, pc, np_random, X_train, Y_train, X_test,
                   Y_test, X_check, Y_check, fw, ev, grad, result, stdout, tested,
                   fw_trained, classes>>

\* lines 65-68: the next minibatch is sliced and its forward phase starts
TrainForward ==
    /\ script = "LR" /\ pc = "train" /\ phase \in {"Idle", "ParameterUpdate"}
    /\ iter < RangeStop(Len(X_train), cfg.mbs)
    /\ i' = iter
    /\ iter' = RangeNext(iter, cfg.mbs)
    /\ x' = BatchX(X_train, iter, cfg.mbs)
    /\ y' = BatchY(Y_train, iter, cfg.mbs)
    /\ phase' = "Forward"
    /\ presented' = Append(presented, [lo |-> iter, n |-> Len(x'), ny |-> Len(y')])
    /\ UNCHANGED <<script, mvars, bvars, cfg, pc, np_random, X_train, Y_train, X_test, Y_test,
                   X_check, Y_check, fw, ev, grad, result, stdout, tested, fw_trained, classes>>

\* line 68, inside train_minibatch: the backward phase
TrainBackward ==
    /\ script = "LR" /\ pc = "train" /\ phase = "Forward"
    /\ grad' = gradient(fw, x, y)
    /\ phase' = "Backward"
    /\ UNCHANGED <<script, mvars, bvars, cfg, pc, np_random, X_train, Y_train, X_test, Y_test,
                   X_check, Y_check, fw, ev, iter, i, x, y, result, stdout, presented,
                   tested, fw_trained, classes>>

\* line 68, inside train_minibatch: the parameter update, then the call returns
TrainUpdate ==
    /\ script = "LR" /\ pc = "train" /\ phase = "Backward"
    /\ fw' = learner_update(fw, grad, Len(x))
    /\ stdout' = stdout \o progress_line(progress_every \div cfg.mbs, fw'.steps)
    /\ phase' = "ParameterUpdate"
    /\ UNCHANGED <<script, mvars, bvars, cfg, pc, np_random, X_train, Y_train, X_test, Y_test,
                   X_check, Y_check, ev, iter, i, x, y, grad, result, presented,
                   tested, fw_trained, classes>>

\* line 65: range() is exhausted, the loop ends
TrainExit ==
    /\ script = "LR" /\ pc = "train" /\ phase \in {"Idle", "ParameterUpdate"}
    /\ iter >= RangeStop(Len(X_train), cfg.mbs)
    /\ phase' = "Idle"
    /\ fw_trained' = fw
    /\ pc' = "summarize_training"
    /\ UNCHANGED <<script, mvars, bvars, cfg, np_random, X_train, Y_train, X_test, Y_test,
                   X_check, Y_check, fw, ev, iter, i, x, y, grad, result, stdout,
                   presented, tested, classes>>

\* lines 69 and 72
SummarizeTraining ==
    /\ script = "LR" /\ pc = "summarize_training"
    /\ stdout' = Append(stdout, <<"training_summary", fw.samples>>)
    /\ ev' = [samples |-> 0, errors |-> 0, steps |-> 0]
    /\ iter' = 0
    /\ pc' = "eval"
    /\ UNCHANGED <<script, mvars, bvars, cfg, np_random, X_train, Y_train, X_test, Y_test,
                   X_check, Y_check, fw, phase, i, x, y, grad, result, presented,
                   tested, fw_trained, classes>>

\* seeded fault: the evaluation loop calls the trainer
EvalCall_train(f, e, bx, by) == train_minibatch(f, e, bx, by)

\* line 76: the call the evaluation loop makes on each minibatch
EvalCall(f, e, bx, by) == test_minibatch(f, e, bx, by, num_classes)

\* lines 73-76
TestStep ==
    /\ script = "LR" /\ pc = "eval"
    /\ iter < RangeStop(Len(X_test), cfg.mbs)
    /\ i' = iter
    /\ iter' = RangeNext(iter, cfg.mbs)
    /\ x' = BatchX(X_test, iter, cfg.mbs)
    /\ y' = BatchY(Y_test, iter, cfg.mbs)
    /\ LET r == EvalCall(fw, ev, x', y')
       IN  fw' = r.fw /\ ev' = r.ev
    /\ tested' = Append(tested, [lo |-> iter, n |-> Len(x'), ny |-> Len(y')])
    /\ UNCHANGED <<script, mvars, bvars, cfg, pc, np_random, X_train, Y_train, X_test, Y_test,
                   X_check, Y_check, phase, grad, result, stdout, presented,
                   fw_trained, classes>>

\* line 73: range() is exhausted
EvalExit ==
    /\ script = "LR" /\ pc = "eval"
    /\ iter >= RangeStop(Len(X_test), cfg.mbs)
    /\ pc' = "summarize_test"
    /\ UNCHANGED <<script, mvars, bvars, cfg, np_random, X_train, Y_train, X_test, Y_test,
                   X_check, Y_check, fw, ev, phase, iter, i, x, y, grad, result,
                   stdout, presented, tested, fw_trained, classes>>

\* line 77
SummarizeTest ==
    /\ script = "LR" /\ pc = "summarize_test"
    /\ stdout' = Append(stdout, <<"test_summary", ev.samples, ev.errors>>)
    /\ pc' = "gen_check"
    /\ UNCHANGED <<script, mvars, bvars, cfg, np_random, X_train, Y_train, X_test, Y_test,
                   X_check, Y_check, fw, ev, phase, iter, i, x, y, grad, result,
                   presented, tested, fw_trained, classes>>

\* line 84
GenCheck ==
    /\ script = "LR" /\ pc = "gen_check"
    /\ LET r == generate_synthetic_data(np_random, cfg.n_check)
       IN  /\ X_check' = r.X /\ Y_check' = r.Y /\ np_random' = r.rng
           /\ classes' = [classes EXCEPT !.check = r.classes]
           /\ pc' = IF r.ok THEN "predict" ELSE "error"
    /\ UNCHANGED <<script, mvars, bvars, cfg, X_train, Y_train, X_test, Y_test,
                   fw, ev, phase, iter, i, x, y, grad, result, stdout, presented,
                   tested, fw_trained>>

\* lines 82 and 85: softmax keeps the order of the scores
Predict ==
    /\ script = "LR" /\ pc = "predict"
    /\ result' = [k \in 1..Len(X_check) |-> model_scores(fw, X_check[k], num_classes)]
    /\ pc' = "print"
    /\ UNCHANGED <<script, mvars, bvars, cfg, np_random, X_train, Y_train, X_test, Y_test,
                   X_check, Y_check, fw, ev, phase, iter, i, x, y, grad, stdout,
                   presented, tested, fw_trained, classes>>

\* lines 87-88
PrintPredictions ==
    /\ script = "LR" /\ pc = "print"
    /\ stdout' = stdout \o
          << <<"Label", [k \in 1..Len(Y_check) |-> argmax(Y_check[k])]>>,
             <<"Predicted", [k \in 1..Len(result) |-> argmax(result[k])]>> >>
    /\ pc' = "done"
    /\ UNCHANGED <<script, mvars, bvars, cfg, np_random, X_train, Y_train, X_test, Y_test,
                   X_check, Y_check, fw, ev, phase, iter, i, x, y, grad, result,
                   presented, tested, fw_trained, classes>>

LRNext ==
    \/ SeedRng \/ GenTrain \/ GenTest \/ Build
    \/ TrainForward \/ TrainBackward \/ TrainUpdate \/ TrainExit
    \/ SummarizeTraining \/ TestStep \/ EvalExit \/ SummarizeTest
    \/ GenCheck \/ Predict \/ PrintPredictions

(* ----------------------- MNIST_Complex_Training.py --------------------- *)
\* the rows "MNIST original" serves: a pixel value 0..255 and the digit as a
\* float, kept in tenths; every third variant is a corrupt copy holding a
\* digit out of range
Dataset(variant, rows) ==
    [data   |-> [k \in 1..rows |-> <<(k * 37 + variant * 11) % 256>>],
     target |-> [k \in 1..rows |->
                    10 * (IF variant % 3 = 2 THEN (k + 8) % 11
                          ELSE (k * (3 + 4 * (variant % 3)) + 9 * (variant % 3)) % 10)]]

\* Y.astype(int): truncation of a non-negative float (in tenths)
astype_int(t) == t \div 10

\* sklearn.utils.shuffle: one permutation, drawn from np.random, for all arrays
shuffle_perm(st, n) ==
    [k \in 1..n |-> (((k - 1) + Mix(st)) % n) + 1]

\* a[start:stop:step] on the first axis
StridedSlice(a, start, stop, step) ==
    LET hi == Min(stop, Len(a))
        n  == IF hi > start THEN CeilDiv(hi - start, step) ELSE 0
    IN  [k \in 1..n |-> a[start + (k - 1) * step + 1]]

\* lines 27-38; ok is FALSE when csr_matrix raises
fetch_mnist(ds, st, c) ==
    LET X   == ds.data
        Y   == ds.target
        n   == Len(Y)
        ntr == Min(c.split, n)
        nte == n - ntr
        Xtr == SubSeq(X, 1, ntr)
        Xte == SubSeq(X, c.split + 1, n)
        Ytr == [k \in 1..ntr |-> astype_int(Y[k])]
        Yte == [k \in 1..nte |-> astype_int(Y[c.split + k])]
        st1 == np_random_seed(st, seed_value)
        pm  == shuffle_perm(st1, ntr)
        st2 == rng_advance(st1, ntr)
        Xsh == [k \in 1..ntr |-> Xtr[pm[k]]]
        Ysh == [k \in 1..ntr |-> Ytr[pm[k]]]
        Y1  == csr_matrix([k \in 1..ntr |-> 1], Ysh, ntr, mnist_num_classes)
        Y2  == csr_matrix([k \in 1..nte |-> 1], Yte, nte, mnist_num_classes)
    IN  [ok      |-> Y1.ok /\ Y2.ok,
         X_train |-> [k \in 1..ntr |-> <<astype_float32(Xsh[k][1])>>],
         Y_train |-> Y1.rows,
         X_test  |-> [k \in 1..nte |-> <<astype_float32(Xte[k][1])>>],
         Y_test  |-> Y2.rows,
         rng     |-> st2]

SmallMCfgs ==
    {[rows |-> s + t, split |-> s, epoch_size |-> s, mbs |-> m, max_epochs |-> e,
      check_stop |-> t, check_step |-> d, variant |-> v] :
        s \in 1..MaxSplit, t \in 1..MaxMTest, m \in 1..MaxMBatch, e \in 1..MaxEpochs,
        d \in 1..MaxStep, v \in 0..MaxVariant}

MInit(cfgs, pc0, entropy) ==
    /\ m_cfg \in cfgs
    /\ m_pc = pc0
    /\ m_rng \in entropy
    /\ m_X_train = <<>> /\ m_Y_train = <<>>
    /\ m_X_test = <<>> /\ m_Y_test = <<>>
    /\ m_fw = [W |-> 0, b |-> 0, samples |-> 0, steps |-> 0]
    /\ m_cursor = 0
    /\ m_ckpt_index = 0
    /\ m_files = <<>>
    /\ m_progress = [epoch_summaries |-> <<>>, test_summary |-> <<>>]
    /\ m_final = <<>>
    /\ m_check = [X |-> <<>>, Y |-> <<>>, result |-> <<>>]
    /\ m_stdout = <<>>
    /\ m_fetches = 0
    /\ m_failed = FALSE

\* seeded fault: the fetch is tried again
AfterFetchFailure_retry == "fetch"

\* line 40: an exception raised by fetch_mnist() is not caught
AfterFetchFailure == "error"

\* lines 28 and 40: fetch_mldata raises
MFetchFails ==
    /\ script = "MNIST" /\ m_pc = "fetch"
    /\ m_fetches' = m_fetches + 1
    /\ m_failed' = TRUE
    /\ m_pc' = AfterFetchFailure
    /\ UNCHANGED <<script, lrvars, bvars, m_cfg, m_rng, m_X_train, m_Y_train, m_X_test,
                   m_Y_test, m_fw, m_cursor, m_ckpt_index, m_files, m_progress,
                   m_final, m_check, m_stdout>>

\* lines 27-40: fetch_mldata returns the dataset
MFetchReturns ==
    /\ script = "MNIST" /\ m_pc = "fetch"
    /\ m_fetches' = m_fetches + 1
    /\ LET r == fetch_mnist(Dataset(m_cfg.variant, m_cfg.rows), m_rng, m_cfg)
       IN  IF ~r.ok
           THEN /\ m_failed' = TRUE
                /\ m_pc' = AfterFetchFailure
                /\ UNCHANGED <<m_rng, m_X_train, m_Y_train, m_X_test, m_Y_test>>
           ELSE /\ m_failed' = m_failed
                /\ m_X_train' = r.X_train /\ m_Y_train' = r.Y_train
                /\ m_X_test' = r.X_test /\ m_Y_test' = r.Y_test
                /\ m_rng' = r.rng
                /\ m_pc' = "build"
    /\ UNCHANGED <<script, lrvars, bvars, m_cfg, m_fw, m_cursor, m_ckpt_index, m_files,
                   m_progress, m_final, m_check, m_stdout>>

\* lines 45-83: the network, the learner and the callbacks are created
MBuild ==
    /\ script = "MNIST" /\ m_pc = "build"
    /\ \E w0 \in 0..MaxInitW :
          m_fw' = [W |-> w0, b |-> 0, samples |-> 0, steps |-> 0]
    /\ m_pc' = "train"
    /\ UNCHANGED <<script, lrvars, bvars, m_cfg, m_rng, m_X_train, m_Y_train, m_X_test,
                   m_Y_test, m_cursor, m_ckpt_index, m_files, m_progress, m_final,
                   m_check, m_stdout, m_fetches, m_failed>>

\* seeded fault: the minibatch size is given as the checkpoint frequency
CheckpointFrequency_minibatch(c) == c.mbs

\* line 82: CheckpointConfig(model_path, epoch_size, restore=False)
CheckpointFrequency(c) == c.epoch_size

\* line 87: the callbacks handed to criterion.train
Callbacks == {"progress_writer", "checkpoint_config", "test_config"}

\* the checkpoint callback after a minibatch: a write when the sample count
\* has passed the next multiple of the frequency
checkpoint_due(c, samples, index) ==
    /\ "checkpoint_config" \in Callbacks
    /\ CheckpointFrequency(c) > 0
    /\ samples \div CheckpointFrequency(c) > index

\* lines 86-87, inside criterion.train: one minibatch of the training session
MTrainStep ==
    /\ script = "MNIST" /\ m_pc = "train"
    /\ m_fw.samples < m_cfg.max_epochs * Len(m_X_train)
    /\ LET bx == Slice(m_X_train, m_cursor, m_cursor + m_cfg.mbs)
           by == Slice(m_Y_train, m_cursor, m_cursor + m_cfg.mbs)
           f2 == learner_update(m_fw, gradient(m_fw, bx, by), Len(bx))
           swept == m_cursor + m_cfg.mbs >= Len(m_X_train)
       IN  /\ m_fw' = f2
           /\ m_cursor' = IF swept THEN 0 ELSE m_cursor + m_cfg.mbs
           /\ m_progress' =
                 IF swept
                 THEN [m_progress EXCEPT !.epoch_summaries =
                          Append(@, [samples |-> Len(m_X_train), steps |-> f2.steps])]
                 ELSE m_progress
           /\ IF checkpoint_due(m_cfg, f2.samples, m_ckpt_index)
              THEN /\ m_files' = Append(m_files, [path |-> model_path, fw |-> f2])
                   /\ m_ckpt_index' = f2.samples \div CheckpointFrequency(m_cfg)
              ELSE UNCHANGED <<m_files, m_ckpt_index>>
           /\ m_stdout' = m_stdout \o progress_line(mnist_progress_freq, f2.steps)
    /\ UNCHANGED <<script, lrvars, bvars, m_cfg, m_pc, m_rng, m_X_train, m_Y_train,
                   m_X_test, m_Y_test, m_final, m_check, m_fetches, m_failed>>

\* lines 86-87: the session ends, test_config evaluates the test set
MTrainEnd ==
    /\ script = "MNIST" /\ m_pc = "train"
    /\ m_fw.samples >= m_cfg.max_epochs * Len(m_X_train)
    /\ m_progress' =
          [m_progress EXCEPT !.test_summary =
              IF "test_config" \in Callbacks
              THEN <<[samples |-> Len(m_X_test),
                      errors  |-> classification_errors(m_fw, m_X_test, m_Y_test,
                                                        mnist_num_classes)]>>
              ELSE <<>>]
    /\ m_pc' = "report"
    /\ UNCHANGED <<script, lrvars, bvars, m_cfg, m_rng, m_X_train, m_Y_train, m_X_test,
                   m_Y_test, m_fw, m_cursor, m_ckpt_index, m_files, m_final, m_check,
                   m_stdout, m_fetches, m_failed>>

\* line 88
MReport ==
    /\ script = "MNIST" /\ m_pc = "report"
    /\ IF m_progress.epoch_summaries = <<>> \/ m_progress.test_summary = <<>>
       THEN m_pc' = "error" /\ UNCHANGED m_final
       ELSE /\ m_final' =
                 <<m_progress.epoch_summaries[Len(m_progress.epoch_summaries)].samples,
                   m_progress.test_summary[1].errors>>
            /\ m_pc' = "check"
    /\ UNCHANGED <<script, lrvars, bvars, m_cfg, m_rng, m_X_train, m_Y_train, m_X_test,
                   m_Y_test, m_fw, m_cursor, m_ckpt_index, m_files, m_progress,
                   m_check, m_stdout, m_fetches, m_failed>>

\* lines 100-101
MCheck ==
    /\ script = "MNIST" /\ m_pc = "check"
    /\ LET X == StridedSlice(m_X_test, 0, m_cfg.check_stop, m_cfg.check_step)
           Y == StridedSlice(m_Y_test, 0, m_cfg.check_stop, m_cfg.check_step)
       IN  m_check' = [X |-> X, Y |-> Y,
                       result |-> [k \in 1..Len(X) |->
                                     model_scores(m_fw, X[k], mnist_num_classes)]]
    /\ m_pc' = "print"
    /\ UNCHANGED <<script, lrvars, bvars, m_cfg, m_rng, m_X_train, m_Y_train, m_X_test,
                   m_Y_test, m_fw, m_cursor, m_ckpt_index, m_files, m_progress,
                   m_final, m_stdout, m_fetches, m_failed>>

\* lines 103-104
MPrint ==
    /\ script = "MNIST" /\ m_pc = "print"
    /\ m_stdout' = m_stdout \o
          << <<"Label", [k \in 1..Len(m_check.Y) |-> argmax(m_check.Y[k])]>>,
             <<"Predicted", [k \in 1..Len(m_check.result) |-> argmax(m_check.result[k])]>> >>
    /\ m_pc' = "done"
    /\ UNCHANGED <<script, lrvars, bvars, m_cfg, m_rng, m_X_train, m_Y_train, m_X_test,
                   m_Y_test, m_fw, m_cursor, m_ckpt_index, m_files, m_progress,
                   m_final, m_check, m_fetches, m_failed>>

MNext ==
    \/ MFetchFails \/ MFetchReturns \/ MBuild \/ MTrainStep \/ MTrainEnd
    \/ MReport \/ MCheck \/ MPrint

ScriptMCfg ==
    [rows |-> mnist_split + check_stop, split |-> mnist_split, epoch_size |-> epoch_size,
     mbs |-> mnist_minibatch_size, max_epochs |-> max_epochs,
     check_stop |-> check_stop, check_step |-> check_step, variant |-> 0]

\* the script that is not run stays where it is
LROff == LRInit({ScriptCfg}, "off", {0})

MOff == MInit({ScriptMCfg}, "off", {0})

BOff == b_pc = "off" /\ b_rng = 0 /\ b_out = <<>>

Init ==
    /\ script \in {"LR", "MNIST"}
    /\ IF script = "LR"
       THEN LRInit(SmallCfgs \cup {ScriptCfg}, "seed", 0..MaxEntropy) /\ MOff
       ELSE LROff /\ MInit(SmallMCfgs, "fetch", 0..MaxEntropy)
    /\ BOff

Next == LRNext \/ MNext

(* --------------- a second run of the LR script's data calls ------------ *)
BSizes == <<cfg.n_train, cfg.n_test, cfg.n_check>>

\* line 23 in the second run
BSeed ==
    /\ b_pc = "seed"
    /\ b_rng' = SeedCall(b_rng)
    /\ b_pc' = "gen"
    /\ UNCHANGED <<script, lrvars, mvars, b_out>>

\* lines 31, 32 and 84 in the second run
BGen ==
    /\ b_pc = "gen"
    /\ LET r == generate_synthetic_data(b_rng, BSizes[Len(b_out) + 1])
       IN  /\ b_out' = Append(b_out, [X |-> r.X, Y |-> r.Y])
           /\ b_rng' = r.rng
    /\ b_pc' = IF Len(b_out) + 1 = Len(BSizes) THEN "done" ELSE "gen"
    /\ UNCHANGED <<script, lrvars, mvars>>

InitTwoRuns ==
    /\ script = "LR"
    /\ LRInit(SmallCfgs, "seed", 0..MaxEntropy)
    /\ MOff
    /\ b_pc = "seed" /\ b_rng \in 0..MaxEntropy /\ b_out = <<>>

NextTwoRuns == LRNext \/ BSeed \/ BGen

SpecTwoRuns == InitTwoRuns /\ [][NextTwoRuns]_vars

Spec == Init /\ [][Next]_vars

(* ============================ properties ============================== *)
LRStarted(pos) == script = "LR" /\ pc \in pos

AfterTrainLoop ==
    {"summarize_training", "eval", "summarize_test", "gen_check", "predict", "print", "done"}

AfterEvalLoop == {"summarize_test", "gen_check", "predict", "print", "done"}

\* the slice [lo, lo + n) holds sample index k
Covers(b, k) == b.lo <= k /\ k < b.lo + b.n

(* C1: the training loop presents the slices [i, min(i+m, N)) for          *)
(* i = 0, m, 2m, ... in increasing order; every batch is non-empty, every  *)
(* batch but the last has m samples, the last has N - m*floor((N-1)/m),    *)
(* and once the loop has ended every sample index 0..N-1 has been          *)
(* presented exactly once (the slices are disjoint, increasing and cover). *)
C1_TrainSlices ==
    LRStarted({"train"} \cup AfterTrainLoop) =>
        LET N == cfg.n_train
            m == cfg.mbs
            h == presented
        IN  /\ \A j \in 1..Len(h) :
                  /\ h[j].lo = (j - 1) * m
                  /\ h[j].n = Min(h[j].lo + m, N) - h[j].lo
                  /\ h[j].n >= 1
                  /\ h[j].ny = h[j].n
                  /\ j < Len(h) => h[j].n = m
                  /\ j < Len(h) => h[j].lo + h[j].n = h[j + 1].lo
                  /\ j = CeilDiv(N, m) => h[j].n = N - m * ((N - 1) \div m)
            /\ Len(h) <= CeilDiv(N, m)
            /\ pc \in AfterTrainLoop =>
                  /\ Len(h) = CeilDiv(N, m)
                  /\ \A k \in 0..(N - 1) : Covers(h[(k \div m) + 1], k)
                  /\ N > 0 => h[Len(h)].lo + h[Len(h)].n = N

C1_Witness ==
    /\ LRStarted({"summarize_training"})
    /\ Len(presented) >= 2
    /\ presented[Len(presented)].n < cfg.mbs
    /\ presented[Len(presented)].n >= 1

IsOneHotOf(row, c, nc) ==
    /\ c \in 0..(nc - 1)
    /\ DOMAIN row = 0..(nc - 1)
    /\ \A d \in 0..(nc - 1) : row[d] = (IF d = c THEN 1 ELSE 0)

OneHotRows(Y, cls, nc) ==
    /\ Len(Y) = Len(cls)
    /\ \A k \in 1..Len(Y) : IsOneHotOf(Y[k], cls[k], nc)

\* the digit of each row fetch_mnist returns, in the order it returns them
MnistTrainClasses ==
    LET ds == Dataset(m_cfg.variant, m_cfg.rows)
        pm == shuffle_perm(SeedCall(0), m_cfg.split)
    IN  [k \in 1..m_cfg.split |-> ds.target[pm[k]] \div 10]

MnistTestClasses ==
    LET ds == Dataset(m_cfg.variant, m_cfg.rows)
    IN  [k \in 1..(m_cfg.rows - m_cfg.split) |-> ds.target[m_cfg.split + k] \div 10]

(* C3: every label row generate_synthetic_data and fetch_mnist return is   *)
(* the one-hot vector of the sample's class: the column of the class, in   *)
(* 0..num_classes-1, holds 1 and every other column holds 0.  Checked on   *)
(* each array in the state that follows the call that returned it.         *)
C3_OneHotLabels ==
    /\ LRStarted({"gen_test"}) => OneHotRows(Y_train, classes.train, num_classes)
    /\ LRStarted({"build"}) => OneHotRows(Y_test, classes.test, num_classes)
    /\ LRStarted({"predict"}) => OneHotRows(Y_check, classes.check, num_classes)
    /\ (script = "MNIST" /\ m_pc \notin {"fetch", "error"}) =>
          /\ OneHotRows(m_Y_train, MnistTrainClasses, mnist_num_classes)
          /\ OneHotRows(m_Y_test, MnistTestClasses, mnist_num_classes)

C3_Witness ==
    /\ LRStarted({"predict"})
    /\ Len(Y_check) >= 2
    /\ \E k1, k2 \in 1..Len(Y_check) : Y_check[k1][0] = 1 /\ Y_check[k2][1] = 1

\* the batch (bx, by) holds rows lo .. lo+len-1 of (X, Y), row for row
AlignedBatch(bx, by, X, Y, lo) ==
    /\ Len(bx) = Len(by)
    /\ lo + Len(bx) <= Len(X)
    /\ \A k \in 1..Len(bx) : bx[k] = X[lo + k] /\ by[k] = Y[lo + k]

(* C4: generate_synthetic_data(N) returns N feature rows and N label rows, *)
(* and every minibatch of the training and evaluation loops has as many    *)
(* feature rows as label rows, row k of both from the same sample index.   *)
C4_AlignedArrays ==
    /\ LRStarted({"gen_test", "build", "train"} \cup AfterTrainLoop) =>
          Len(X_train) = cfg.n_train /\ Len(Y_train) = cfg.n_train
    /\ LRStarted({"build", "train"} \cup AfterTrainLoop) =>
          Len(X_test) = cfg.n_test /\ Len(Y_test) = cfg.n_test
    /\ LRStarted({"predict", "print", "done"}) =>
          Len(X_check) = cfg.n_check /\ Len(Y_check) = cfg.n_check
    /\ (LRStarted({"train"}) /\ presented # <<>>) =>
          AlignedBatch(x, y, X_train, Y_train, i)
    /\ (LRStarted({"eval"}) /\ tested # <<>>) =>
          AlignedBatch(x, y, X_test, Y_test, i)

C4_Witness ==
    /\ LRStarted({"eval"})
    /\ Len(tested) >= 2
    /\ Len(x) >= 1 /\ Len(x) < cfg.mbs
    /\ Len(presented) >= 2

\* what the first run returned at its k-th generate_synthetic_data call
ACall(k) ==
    IF k = 1 THEN [X |-> X_train, Y |-> Y_train]
    ELSE IF k = 2 THEN [X |-> X_test, Y |-> Y_test]
    ELSE [X |-> X_check, Y |-> Y_check]

ADone(k) ==
    IF k = 1 THEN pc \notin {"seed", "gen_train"}
    ELSE IF k = 2 THEN pc \notin {"seed", "gen_train", "gen_test"}
    ELSE pc \in {"predict", "print", "done"}

C6_FetchFailureFatal ==
    (script = "MNIST" /\ m_failed) =>
        /\ m_pc = "error"
        /\ m_fetches = 1
        /\ m_fw.steps = 0
        /\ m_files = <<>>
        /\ m_stdout = <<>>
        /\ ~ ENABLED MNext

C6_Witness ==
    script = "MNIST" /\ m_failed /\ m_pc = "error" /\ m_fetches = 1

(* C7: with the checkpoint callback a checkpoint is written to model_path  *)
(* after each epoch: the j-th write is made after the last update of       *)
(* epoch j and holds the parameters of that update, there is one write per *)
(* completed epoch and max_epochs writes when training has ended, and no   *)
(* write goes to another path.                                             *)
C7_CheckpointPerEpoch ==
    script = "MNIST" =>
        LET n  == Len(m_X_train)
            pe == CeilDiv(n, m_cfg.mbs)
        IN  /\ \A j \in 1..Len(m_files) :
                  /\ m_files[j].path = model_path
                  /\ m_files[j].fw.samples = j * n
                  /\ m_files[j].fw.steps = j * pe
            /\ Len(m_files) = Len(m_progress.epoch_summaries)
            /\ m_pc = "train" => Len(m_files) = m_fw.steps \div pe
            /\ (m_files # <<>> /\ m_fw.steps = Len(m_files) * pe) =>
                  m_files[Len(m_files)].fw = m_fw
            /\ m_pc \in {"report", "check", "print", "done"} =>
                  Len(m_files) = m_cfg.max_epochs

C7_Witness ==
    /\ script = "MNIST" /\ m_pc = "done"
    /\ m_cfg.max_epochs = 2
    /\ Len(m_files) = 2
    /\ m_fw.steps >= 4
    /\ Len(m_X_train) % m_cfg.mbs # 0

PhaseMoves ==
    {<<"Idle", "Forward">>, <<"Forward", "Backward">>, <<"Backward", "ParameterUpdate">>,
     <<"ParameterUpdate", "Forward">>, <<"ParameterUpdate", "Idle">>}

\* the number of minibatches handed to train_minibatch and not yet applied
InFlight == Len(presented) - fw.steps

(* C8: the training loop moves Idle -> Forward -> Backward ->              *)
(* ParameterUpdate for each batch, the next batch's Forward starts only    *)
(* when the previous ParameterUpdate is complete (at most one batch is in  *)
(* flight), and the loop returns to Idle only when the data is exhausted.  *)
C8_PhaseMachine ==
    /\ [](script = "LR" =>
            /\ phase \in {"Idle", "Forward", "Backward", "ParameterUpdate"}
            /\ InFlight = (IF phase \in {"Forward", "Backward"} THEN 1 ELSE 0)
            /\ phase # "Idle" => pc = "train")
    /\ [][script = "LR" =>
            /\ phase' # phase => <<phase, phase'>> \in PhaseMoves
            /\ Len(presented') > Len(presented) =>
                  (phase' = "Forward" /\ phase \in {"Idle", "ParameterUpdate"})
            /\ (phase' = "Forward" /\ phase # "Forward") => fw.steps = Len(presented)
            /\ (phase # "Idle" /\ phase' = "Idle") =>
                  /\ iter >= Len(X_train)
                  /\ fw.samples = Len(X_train)]_vars

C8_Witness ==
    /\ LRStarted({"train"})
    /\ phase = "Forward"
    /\ fw.steps >= 2
    /\ Len(presented) = 3

(* C9: the learner's counters never decrease: a train_minibatch call adds  *)
(* the size of its batch to the sample count and one to the step count,    *)
(* every other step leaves both unchanged, and when training has ended the *)
(* sample count is the number of training samples (20000 in the script).   *)
C9_CounterMonotone ==
    /\ [](LRStarted(AfterTrainLoop) =>
            /\ fw.samples = cfg.n_train
            /\ cfg = ScriptCfg => fw.samples = 20000)
    /\ [][script = "LR" =>
            IF pc = "train" /\ phase = "Backward"
            THEN /\ fw'.samples = fw.samples + presented[Len(presented)].n
                 /\ fw'.steps = fw.steps + 1
            ELSE /\ fw'.samples = fw.samples
                 /\ fw'.steps = fw.steps]_vars

C9_Witness ==
    /\ LRStarted({"done"})
    /\ fw.steps >= 2
    /\ fw.samples = cfg.n_train
    /\ cfg.n_train % cfg.mbs # 0
    /\ Len(tested) >= 2

Printed(tag) == \E k \in 1..Len(stdout) : stdout[k][1] = tag

C10_Counts ==
    script = "LR" =>
        /\ fw.steps <= CeilDiv(cfg.n_train, cfg.mbs)
        /\ ev.steps <= CeilDiv(cfg.n_test, cfg.mbs)
        /\ pc \in AfterTrainLoop =>
              /\ fw.steps = CeilDiv(cfg.n_train, cfg.mbs)
              /\ cfg = ScriptCfg => fw.steps = 800
        /\ tested # <<>> =>
              /\ pc \in {"eval"} \cup AfterEvalLoop
              /\ fw.steps = CeilDiv(cfg.n_train, cfg.mbs)
        /\ pc \in AfterEvalLoop =>
              /\ ev.steps = CeilDiv(cfg.n_test, cfg.mbs)
              /\ cfg = ScriptCfg => ev.steps = 40

\* the claim as stated: every summary and the predictions come after both loops
C10_OrderStated ==
    script = "LR" =>
        /\ (Printed("training_summary") \/ Printed("test_summary")) => pc \in AfterEvalLoop
        /\ (Printed("Label") \/ Printed("Predicted")) => pc \in AfterEvalLoop

\* the order the script has: the training summary between the two loops
C10_OrderAmended ==
    script = "LR" =>
        /\ Printed("training_summary") <=> pc \in {"eval"} \cup AfterEvalLoop
        /\ Printed("test_summary") <=> pc \in {"gen_check", "predict", "print", "done"}
        /\ (Printed("Label") \/ Printed("Predicted")) <=> pc = "done"

(* C10 as stated: the loops end after ceil(N/m) and ceil(T/m) steps, the   *)
(* evaluation loop starts after the last training update, and the progress *)
(* summaries and the predictions are printed only after both loops.        *)
C10_Stated == C10_Counts /\ C10_OrderStated

PcIndex ==
    [seed |-> 0, gen_train |-> 1, gen_test |-> 2, build |-> 3, train |-> 4,
     summarize_training |-> 5, eval |-> 6, summarize_test |-> 7, gen_check |-> 8,
     predict |-> 9, print |-> 10, done |-> 11]

PhaseIndex == [Idle |-> 0, Forward |-> 1, Backward |-> 2, ParameterUpdate |-> 0]

\* how far the run is: the stage, then the work done inside the stage's loop
Progress == <<PcIndex[pc], 3 * fw.steps + PhaseIndex[phase] + ev.steps>>

Advances(r1, r2) == r1[1] < r2[1] \/ (r1[1] = r2[1] /\ r1[2] < r2[2])

(* C10, amended: the run terminates (before "done" a step is always        *)
(* possible and every step advances a bounded measure of progress); the    *)
(* training loop ends after ceil(N/m) updates (800 in the script), the     *)
(* evaluation loop starts after the last update and ends after ceil(T/m)   *)
(* test steps (40); the training summary is printed after the training     *)
(* loop and before the evaluation loop, the test summary and the           *)
(* predictions only after both loops.                                      *)
C10_TerminatesInOrder ==
    /\ [](C10_Counts /\ C10_OrderAmended)
    /\ []((script = "LR" /\ pc # "done") => ENABLED LRNext)
    /\ [][script = "LR" => Advances(Progress, Progress')]_vars

C10_Witness ==
    /\ LRStarted({"done"})
    /\ fw.steps = CeilDiv(cfg.n_train, cfg.mbs) /\ fw.steps >= 2
    /\ ev.steps = CeilDiv(cfg.n_test, cfg.mbs) /\ ev.steps >= 2
    /\ Printed("training_summary") /\ Printed("test_summary") /\ Printed("Predicted")

====
